---------------------------- MODULE Spec2Model ----------------------------
(***************************************************************************)
(* A model of NeilT-UK/python-utilities, engineering_conversions.py:       *)
(* the prefix tables built at load time, eng_float() (string -> float)     *)
(* and eng_str() (float -> string).                                        *)
(*                                                                         *)
(* Text is a sequence of one-character strings.  A float is a record       *)
(*   [k, neg, dig, e]                                                      *)
(* k = "fin": the double nearest to  dig * 10^e  (dig a sequence of        *)
(* decimal digits without leading or trailing zeros), k = "zero", "inf",   *)
(* "nan" the special doubles (dig = <<>>, e = 0).  Decimals of at most 15  *)
(* significant digits inside the normal range name distinct doubles, so    *)
(* equality of the records is equality of the doubles for the inputs the   *)
(* model draws.                                                            *)
(***************************************************************************)
EXTENDS Integers, Sequences, FiniteSets, TLC

VARIABLES ms, pc, args, result, th, gui

vars == <<ms, pc, args, result, th, gui>>

-----------------------------------------------------------------------------
(* Bounds of the model *)

\* longest digit string drawn for the two numeral fields of an input text
MaxLen == 2

\* longest digit string drawn for the numeral after the middle of a text
MaxLenAfter == 1

\* eng_str is called with digits in MinDigits .. MaxDigitsArg
MaxDigitsArg == 5

\* decimal exponents of the values given to eng_str: -MaxExp .. MaxExp
MaxExp == 28

-----------------------------------------------------------------------------
(* Characters and Python string primitives *)

MICRO_SIGN == "U+00B5"

GREEK_MU == "U+03BC"

DigitChars == <<"0", "1", "2", "3", "4", "5", "6", "7", "8", "9">>

IsDigit(c) == \E i \in 1..10 : DigitChars[i] = c

DigitVal(c) == (CHOOSE i \in 1..10 : DigitChars[i] = c) - 1

DigitChar(d) == DigitChars[d + 1]

IsSpace(c) == c \in {" ", "\t", "\n"}

Min(a, b) == IF a <= b THEN a ELSE b

Max(a, b) == IF a >= b THEN a ELSE b

\* s[i:j] of Python for 0 <= i, 0 <= j (indices clamp to the length)
Slice(s, i, j) == SubSeq(s, Min(i, Len(s)) + 1, Min(j, Len(s)))

\* s[i:] of Python for 0 <= i
SliceFrom(s, i) == SubSeq(s, Min(i, Len(s)) + 1, Len(s))

\* s.endswith(suf)
EndsWith(s, suf) ==
    /\ Len(suf) <= Len(s)
    /\ SubSeq(s, Len(s) - Len(suf) + 1, Len(s)) = suf

\* s.find(sub): 0-based position of the first occurrence, -1 when there is none
Find(s, sub) ==
    LET hits == {p \in 0..(Len(s) - Len(sub)) : SubSeq(s, p + 1, p + Len(sub)) = sub}
    IN  IF hits = {} THEN -1 ELSE CHOOSE p \in hits : \A q \in hits : p <= q

RECURSIVE LStrip(_)
LStrip(s) == IF s # <<>> /\ IsSpace(Head(s)) THEN LStrip(Tail(s)) ELSE s

RECURSIVE RStrip(_)
RStrip(s) ==
    IF s # <<>> /\ IsSpace(s[Len(s)]) THEN RStrip(SubSeq(s, 1, Len(s) - 1)) ELSE s

\* s.strip()
Strip(s) == RStrip(LStrip(s))

\* s.rstrip('0')
RECURSIVE RStripZeros(_)
RStripZeros(s) ==
    IF s # <<>> /\ s[Len(s)] = "0" THEN RStripZeros(SubSeq(s, 1, Len(s) - 1)) ELSE s

LowerChar(c) ==
    CASE c = "I" -> "i" [] c = "N" -> "n" [] c = "F" -> "f" [] c = "A" -> "a"
      [] c = "T" -> "t" [] c = "Y" -> "y" [] OTHER -> c

Lower(s) == [i \in 1..Len(s) |-> LowerChar(s[i])]

\* number of decimal digits of s starting at (1-based) position i
RECURSIVE CountDigits(_, _)
CountDigits(s, i) ==
    IF i <= Len(s) /\ IsDigit(s[i]) THEN 1 + CountDigits(s, i + 1) ELSE 0

\* the digits of a digit string, as numbers
DigitVals(s) == [i \in 1..Len(s) |-> DigitVal(s[i])]

\* the number a digit string writes
RECURSIVE NatOf(_)
NatOf(s) == IF s = <<>> THEN 0 ELSE 10 * NatOf(SubSeq(s, 1, Len(s) - 1)) + DigitVal(s[Len(s)])

\* str(n) for a natural number
RECURSIVE NatStr(_)
NatStr(n) == IF n < 10 THEN <<DigitChar(n)>> ELSE NatStr(n \div 10) \o <<DigitChar(n % 10)>>

\* str(n) for an integer
IntStr(n) == IF n < 0 THEN <<"-">> \o NatStr(-n) ELSE NatStr(n)

-----------------------------------------------------------------------------
(* Doubles *)

Zero(neg) == [k |-> "zero", neg |-> neg, dig |-> <<>>, e |-> 0]

Inf(neg) == [k |-> "inf", neg |-> neg, dig |-> <<>>, e |-> 0]

NaN == [k |-> "nan", neg |-> FALSE, dig |-> <<>>, e |-> 0]

RECURSIVE StripLeadingZeroDigits(_)
StripLeadingZeroDigits(d) ==
    IF d # <<>> /\ Head(d) = 0 THEN StripLeadingZeroDigits(Tail(d)) ELSE d

RECURSIVE CountTrailingZeroDigits(_)
CountTrailingZeroDigits(d) ==
    IF d # <<>> /\ d[Len(d)] = 0
    THEN 1 + CountTrailingZeroDigits(SubSeq(d, 1, Len(d) - 1))
    ELSE 0

\* comparison of two digit sequences as decimal fractions 0.d1d2d3...
RECURSIVE FracLess(_, _)
FracLess(a, b) ==
    IF b = <<>> THEN FALSE
    ELSE IF a = <<>> THEN \E i \in 1..Len(b) : b[i] # 0
    ELSE IF Head(a) # Head(b) THEN Head(a) < Head(b)
    ELSE FracLess(Tail(a), Tail(b))

\* 2^1024 - 2^970 = 1.7976931348623158079e308: from here on a decimal rounds to inf
OverflowDigits == <<1, 7, 9, 7, 6, 9, 3, 1, 3, 4, 8, 6, 2, 3, 1, 5, 8, 0, 7, 9>>

OverflowExp == 308

\* 2^-1075 = 2.4703282292062327208e-324: up to here a decimal rounds to zero
UnderflowDigits == <<2, 4, 7, 0, 3, 2, 8, 2, 2, 9, 2, 0, 6, 2, 3, 2, 7, 2, 0, 9>>

UnderflowExp == -324

\* the double nearest to (-1)^neg * digs * 10^e (correctly rounded conversion,
\* as float() does it): overflow gives inf, underflow gives zero
Dec(neg, digs, e) ==
    LET d1  == StripLeadingZeroDigits(digs)
        tz  == CountTrailingZeroDigits(d1)
        d   == SubSeq(d1, 1, Len(d1) - tz)
        ex  == e + tz
        sci == ex + Len(d) - 1
    IN  IF d = <<>> THEN Zero(neg)
        ELSE IF sci > OverflowExp \/ (sci = OverflowExp /\ ~FracLess(d, OverflowDigits))
             THEN Inf(neg)
        ELSE IF sci < UnderflowExp \/ (sci = UnderflowExp /\ ~FracLess(UnderflowDigits, d))
             THEN Zero(neg)
        ELSE [k |-> "fin", neg |-> neg, dig |-> d, e |-> ex]

NoFloat == [ok |-> FALSE, val |-> NaN]

\* float(s) of Python for a string s: ok = FALSE stands for ValueError
ParseFloat(s) ==
    LET t    == Strip(s)
        n    == Len(t)
        sgn  == n >= 1 /\ t[1] \in {"+", "-"}
        neg  == n >= 1 /\ t[1] = "-"
        p1   == IF sgn THEN 2 ELSE 1
        body == Lower(SubSeq(t, p1, n))
        n1   == CountDigits(t, p1)
        p2   == p1 + n1
        dot  == p2 <= n /\ t[p2] = "."
        p3   == IF dot THEN p2 + 1 ELSE p2
        n2   == IF dot THEN CountDigits(t, p3) ELSE 0
        p4   == p3 + n2
        hasE == p4 <= n /\ t[p4] \in {"e", "E"}
        p5   == p4 + 1
        esgn == p5 <= n /\ t[p5] \in {"+", "-"}
        eneg == p5 <= n /\ t[p5] = "-"
        p6   == IF esgn THEN p5 + 1 ELSE p5
        n3   == CountDigits(t, p6)
        eabs == NatOf(SubSeq(t, p6, p6 + n3 - 1))
        ex   == IF hasE THEN (IF eneg THEN -eabs ELSE eabs) ELSE 0
        digs == DigitVals(SubSeq(t, p1, p2 - 1) \o SubSeq(t, p3, p4 - 1))
    IN  IF body \in {<<"i", "n", "f">>, <<"i", "n", "f", "i", "n", "i", "t", "y">>}
             THEN [ok |-> TRUE, val |-> Inf(neg)]
        ELSE IF body = <<"n", "a", "n">> THEN [ok |-> TRUE, val |-> NaN]
        ELSE IF n1 + n2 = 0 THEN NoFloat
        ELSE IF p4 > n THEN [ok |-> TRUE, val |-> Dec(neg, digs, -n2)]
        ELSE IF hasE /\ n3 >= 1 /\ p6 + n3 = n + 1
             THEN [ok |-> TRUE, val |-> Dec(neg, digs, ex - n2)]
        ELSE NoFloat

-----------------------------------------------------------------------------
(* The prefix tables, as the module builds them when it is loaded.  A table  *)
(* is the sequence of its entries in insertion order, which is the order in  *)
(* which a for loop over the dict visits them.                               *)

\* the keys of ms in insertion order
ms_keys == <<3, 6, 9, 12, 15, 18, 21, 24, -3, -6, -9, -12, -15, -18, -21, -24>>

\* ms when loading has finished: exponent -> multiplier text
ms_loaded ==
    (3 :> <<"k">>) @@ (6 :> <<"M">>) @@ (9 :> <<"G">>) @@ (12 :> <<"T">>) @@
    (15 :> <<"P">>) @@ (18 :> <<"E">>) @@ (21 :> <<"Z">>) @@ (24 :> <<"Y">>) @@
    (-3 :> <<"m">>) @@ (-6 :> <<"u">>) @@ (-9 :> <<"n">>) @@ (-12 :> <<"p">>) @@
    (-15 :> <<"f">>) @@ (-18 :> <<"a">>) @@ (-21 :> <<"z">>) @@ (-24 :> <<"y">>)

Entry(t, w) == [tok |-> t, w |-> w]

\* a table that holds the inverted ms only
weights_BIPMOnly == [i \in 1..Len(ms_keys) |-> Entry(ms_loaded[ms_keys[i]], ms_keys[i])]

\* weights: ms inverted, then both micros, then d, c, h
weights ==
    [i \in 1..Len(ms_keys) |-> Entry(ms_loaded[ms_keys[i]], ms_keys[i])]
    \o <<Entry(<<MICRO_SIGN>>, -6), Entry(<<GREEK_MU>>, -6)>>
    \o <<Entry(<<"d">>, -1), Entry(<<"c">>, -2), Entry(<<"h">>, 2)>>

longest_weights ==
    <<Entry(<<"m", "e", "g", "a">>, 6), Entry(<<"M", "E", "G", "A">>, 6),
      Entry(<<"M", "e", "g", "a">>, 6)>>

long_weights ==
    <<Entry(<<"m", "e", "g">>, 6), Entry(<<"M", "E", "G">>, 6),
      Entry(<<"M", "e", "g">>, 6), Entry(<<"d", "a">>, 1)>>

\* a scan that tries the short tokens before the long ones
SearchOrderShortFirst == weights \o long_weights \o longest_weights

\* for search_in in (longest_weights, long_weights, weights): for suffix in search_in:
\* the entries in the order in which the two nested loops visit them
SearchOrder == longest_weights \o long_weights \o weights

\* every entry of the three tables
AllEntries == {SearchOrder[i] : i \in 1..Len(SearchOrder)}

-----------------------------------------------------------------------------
(* eng_float *)

\* the result of an eng_float call: a float, or a ValueError whose message is
\* made of the original text, the token found and the substituted text
Returned(v) ==
    [ok |-> TRUE, val |-> v, exc |-> "none", kind |-> "none",
     org |-> <<>>, cand |-> <<>>, sub |-> <<>>]

\* an error that carries the text after x_org.strip() instead of x_org
Raised_Trimmed(kind, org, cand, sub) ==
    [ok |-> FALSE, val |-> NaN, exc |-> "ValueError", kind |-> kind,
     org |-> Strip(org), cand |-> cand, sub |-> sub]

Raised(kind, org, cand, sub) ==
    [ok |-> FALSE, val |-> NaN, exc |-> "ValueError", kind |-> kind,
     org |-> org, cand |-> cand, sub |-> sub]

\* "{}" of a format string, filled with t
Quoted(t) == <<"\"">> \o t \o <<"\"">>

\* the message of the ValueError r that eng_float raises:
\*   'no input, nothing to do'
\*   '"{}" found suffix "{}" but "{}" not parsed'.format(x_org, cand, x)
\*   '"{}" found infix "{}" but "{}" not parsed'.format(x_org, cand, x)
\*   'could not parse "{}" as float, no multiplier found'.format(x_org)
Message(r) ==
    CASE r.kind = "EmptyInput" ->
            <<"n", "o", " ", "i", "n", "p", "u", "t", ",", " ", "n", "o", "t", "h", "i", "n",
              "g", " ", "t", "o", " ", "d", "o">>
      [] r.kind = "SuffixSubstitutionFailed" ->
            Quoted(r.org) \o <<" ", "f", "o", "u", "n", "d", " ", "s", "u", "f", "f", "i", "x", " ">>
            \o Quoted(r.cand) \o <<" ", "b", "u", "t", " ">> \o Quoted(r.sub)
            \o <<" ", "n", "o", "t", " ", "p", "a", "r", "s", "e", "d">>
      [] r.kind = "InfixSubstitutionFailed" ->
            Quoted(r.org) \o <<" ", "f", "o", "u", "n", "d", " ", "i", "n", "f", "i", "x", " ">>
            \o Quoted(r.cand) \o <<" ", "b", "u", "t", " ">> \o Quoted(r.sub)
            \o <<" ", "n", "o", "t", " ", "p", "a", "r", "s", "e", "d">>
      [] r.kind = "NoMultiplierFound" ->
            <<"c", "o", "u", "l", "d", " ", "n", "o", "t", " ", "p", "a", "r", "s", "e", " ">>
            \o Quoted(r.org)
            \o <<" ", "a", "s", " ", "f", "l", "o", "a", "t", ",", " ", "n", "o", " ", "m",
              "u", "l", "t", "i", "p", "l", "i", "e", "r", " ", "f", "o", "u", "n", "d">>
      [] OTHER -> <<>>

\* the first entry in scan order whose token ends x (0: none)
SuffixScan(x) ==
    LET hits == {i \in 1..Len(SearchOrder) : EndsWith(x, SearchOrder[i].tok)}
    IN  IF hits = {} THEN 0 ELSE CHOOSE i \in hits : \A j \in hits : i <= j

\* the first entry in scan order whose token occurs in x (0: none)
InfixScan(x) ==
    LET hits == {i \in 1..Len(SearchOrder) : Find(x, SearchOrder[i].tok) >= 0}
    IN  IF hits = {} THEN 0 ELSE CHOOSE i \in hits : \A j \in hits : i <= j

\* the suffix stage: the token is removed and 'e' + str(weight) appended
SuffixSubst(x, ent) == SubSeq(x, 1, Len(x) - Len(ent.tok)) \o <<"e">> \o IntStr(ent.w)

\* an infix stage that joins the two parts without the decimal point
InfixSubst_NoPoint(x, ent) ==
    LET pos == Find(x, ent.tok)
    IN  Slice(x, 0, pos) \o SliceFrom(x, pos + Len(ent.tok)) \o <<"e">> \o IntStr(ent.w)

\* the infix stage: first + '.' + last + 'e' + str(weight)
InfixSubst(x, ent) ==
    LET pos == Find(x, ent.tok)
    IN  Slice(x, 0, pos) \o <<".">> \o SliceFrom(x, pos + Len(ent.tok))
        \o <<"e">> \o IntStr(ent.w)

\* an eng_float that substitutes a token it finds before it tries float() on
\* the text as it is
eng_float_SubstitutionFirst(x_org) ==
    LET direct == ParseFloat(x_org)
        x  == Strip(x_org)
        si == SuffixScan(x)
        sx == SuffixSubst(x, SearchOrder[si])
        ii == InfixScan(x)
        ix == InfixSubst(x, SearchOrder[ii])
    IN  IF Len(x_org) = 0 THEN Raised("EmptyInput", x_org, <<>>, <<>>)
        ELSE IF si > 0 /\ ParseFloat(sx).ok THEN Returned(ParseFloat(sx).val)
        ELSE IF si = 0 /\ ii > 0 /\ ParseFloat(ix).ok THEN Returned(ParseFloat(ix).val)
        ELSE IF direct.ok THEN Returned(direct.val)
        ELSE Raised("NoMultiplierFound", x_org, <<>>, <<>>)

\* an eng_float that goes on to the infix scan when the suffix substitution fails
eng_float_InfixAfterSuffix(x_org) ==
    LET direct == ParseFloat(x_org)
        x  == Strip(x_org)
        si == SuffixScan(x)
        sx == SuffixSubst(x, SearchOrder[si])
        ii == InfixScan(x)
        ix == InfixSubst(x, SearchOrder[ii])
    IN  IF Len(x_org) = 0 THEN Raised("EmptyInput", x_org, <<>>, <<>>)
        ELSE IF direct.ok THEN Returned(direct.val)
        ELSE IF si > 0 /\ ParseFloat(sx).ok THEN Returned(ParseFloat(sx).val)
        ELSE IF ii > 0 THEN
            IF ParseFloat(ix).ok THEN Returned(ParseFloat(ix).val)
            ELSE Raised("InfixSubstitutionFailed", x_org, SearchOrder[ii].tok, ix)
        ELSE Raised("NoMultiplierFound", x_org, <<>>, <<>>)

eng_float(x_org) ==
    LET direct == ParseFloat(x_org)
        x  == Strip(x_org)
        si == SuffixScan(x)
        sx == SuffixSubst(x, SearchOrder[si])
        ii == InfixScan(x)
        ix == InfixSubst(x, SearchOrder[ii])
    IN  IF Len(x_org) = 0 THEN Raised("EmptyInput", x_org, <<>>, <<>>)
        ELSE IF direct.ok THEN Returned(direct.val)
        ELSE IF si > 0 THEN
            IF ParseFloat(sx).ok THEN Returned(ParseFloat(sx).val)
            ELSE Raised("SuffixSubstitutionFailed", x_org, SearchOrder[si].tok, sx)
        ELSE IF ii > 0 THEN
            IF ParseFloat(ix).ok THEN Returned(ParseFloat(ix).val)
            ELSE Raised("InfixSubstitutionFailed", x_org, SearchOrder[ii].tok, ix)
        ELSE Raised("NoMultiplierFound", x_org, <<>>, <<>>)

-----------------------------------------------------------------------------
(* eng_str *)

\* dig + 1 in the last place, for a sequence of decimal digits that is not all nines
RECURSIVE Increment(_)
Increment(d) ==
    IF d[Len(d)] < 9 THEN SubSeq(d, 1, Len(d) - 1) \o <<d[Len(d)] + 1>>
    ELSE Increment(SubSeq(d, 1, Len(d) - 1)) \o <<0>>

AllNines(d) == \A i \in 1..Len(d) : d[i] = 9

Zeros(n) == [i \in 1..n |-> 0]

\* the digits cut off by rounding dig to n places are exactly one half
IsTie(dig, n) == Len(dig) = n + 1 /\ dig[n + 1] = 5

\* the discarded digits round up.  On a tie the exact binary value of the
\* double decides (half-even when the decimal is the double itself, else the
\* side the double lies on): tieUp is that outcome.
RoundsUp(dig, n, tieUp) ==
    /\ Len(dig) > n
    /\ \/ dig[n + 1] > 5
       \/ dig[n + 1] = 5 /\ Len(dig) > n + 1
       \/ IsTie(dig, n) /\ tieUp

\* a rounding that cuts the digits off
SciDigitsTruncating(dig, sci, n, tieUp) ==
    [dig |-> IF Len(dig) <= n THEN dig \o Zeros(n - Len(dig)) ELSE SubSeq(dig, 1, n),
     sci |-> sci]

\* dig (first digit at 10^sci) rounded to n significant digits: n digits and
\* the decimal exponent of the first of them
SciDigits(dig, sci, n, tieUp) ==
    LET kept == SubSeq(dig, 1, n)
    IN  IF Len(dig) <= n THEN [dig |-> dig \o Zeros(n - Len(dig)), sci |-> sci]
        ELSE IF ~RoundsUp(dig, n, tieUp) THEN [dig |-> kept, sci |-> sci]
        ELSE IF AllNines(kept) THEN [dig |-> <<1>> \o Zeros(n - 1), sci |-> sci + 1]
        ELSE [dig |-> Increment(kept), sci |-> sci]

DigitStr(d) == [i \in 1..Len(d) |-> DigitChar(d[i])]

\* the exponent field of the e format: a sign and at least two digits
ExpField(n) ==
    (IF n < 0 THEN <<"-">> ELSE <<"+">>)
    \o (IF (IF n < 0 THEN -n ELSE n) < 10 THEN <<"0">> ELSE <<>>)
    \o NatStr(IF n < 0 THEN -n ELSE n)

\* '{:+.{fdigits}e}'.format(x, fdigits=fdigits)
FormatE(x, fdigits, tieUp) ==
    LET sgn == IF x.neg THEN <<"-">> ELSE <<"+">>
        r   == IF x.k = "fin"
               THEN SciDigits(x.dig, x.e + Len(x.dig) - 1, fdigits + 1, tieUp)
               ELSE [dig |-> Zeros(fdigits + 1), sci |-> 0]
        ds  == DigitStr(r.dig)
    IN  IF x.k = "inf" THEN sgn \o <<"i", "n", "f">>
        ELSE IF x.k = "nan" THEN <<"+", "n", "a", "n">>
        ELSE sgn \o <<ds[1]>>
             \o (IF fdigits > 0 THEN <<".">> \o SubSeq(ds, 2, Len(ds)) ELSE <<>>)
             \o <<"e">> \o ExpField(r.sci)

NoInt == [ok |-> FALSE, val |-> 0]

\* int(s) of Python for a string s: ok = FALSE stands for ValueError
ParseInt(s) ==
    LET t   == Strip(s)
        n   == Len(t)
        sgn == n >= 1 /\ t[1] \in {"+", "-"}
        p1  == IF sgn THEN 2 ELSE 1
        n1  == CountDigits(t, p1)
        v   == NatOf(SubSeq(t, p1, n))
    IN  IF n1 >= 1 /\ p1 + n1 = n + 1
        THEN [ok |-> TRUE, val |-> IF t[1] = "-" THEN -v ELSE v]
        ELSE NoInt

\* 'e{:+}'.format(exp)
ExpMult(exp) == <<"e">> \o (IF exp < 0 THEN <<"-">> ELSE <<"+">>) \o NatStr(IF exp < 0 THEN -exp ELSE exp)

\* max(limits), min(limits) of a pair
PairMax(limits) == Max(limits[1], limits[2])

PairMin(limits) == Min(limits[1], limits[2])

\* a transfer of digits that does not lengthen a short fpart first
PadZeros_None(s, n) == s

\* s + '0' * (n - len(s)) when s is shorter than n:
\* while len(fpart)<adjustment: fpart += '0'
PadZeros(s, n) == s \o [i \in 1..(n - Len(s)) |-> "0"]

\* digits < 1 is corrected to 1
ClampDigits(digits) == IF digits < 1 THEN 1 ELSE digits

\* an adjustment taken from the negated exponent
Adjustment_Negated(e) == (-e) % 3

\* adjustment = exp%3: Python's % has the sign of the divisor, as % has here
Adjustment(e) == e % 3

\* a strip that is never done
StripFpart_None(fpart, show_trailing_zeros) == fpart

\* if not show_trailing_zeros: fpart = fpart.rstrip('0')
StripFpart(fpart, show_trailing_zeros) ==
    IF show_trailing_zeros THEN fpart ELSE RStripZeros(fpart)

\* an upper limit that is not shielded from the dict
Hilim_Unclipped(limits) == PairMax(limits)

\* hilim = min(max(limits), 24)
Hilim(limits) == Min(PairMax(limits), 24)

\* lolim = max(min(limits), -24)
Lolim(limits) == Max(PairMin(limits), -24)

NoLocals == [e_str |-> <<>>, digits |-> 0, sign |-> <<>>, ipart |-> <<>>, dp |-> <<>>,
             fpart |-> <<>>, e |-> 0, adjustment |-> 0, exp |-> 0,
             hilim |-> 0, lolim |-> 0, can_subs |-> FALSE]

StrReturned(s, loc) == [ok |-> TRUE, exc |-> "none", str |-> s, loc |-> loc]

StrRaised(exc, loc) == [ok |-> FALSE, exc |-> exc, str |-> <<>>, loc |-> loc]

\* d[k] = v on a dict: the key is added when it is missing
Store(d, k, v) == (k :> v) @@ d

\* ms[6] = mega
StoreMega(m, a) == Store(m, 6, a.mega)

\* ms[-6] = micro
StoreMicro(m, a) == Store(m, -6, a.micro)

\* a write of ms[0] that keeps the entry an earlier call has left
StoreZero_IfAbsent(m, a) == m @@ (0 :> (IF a.infix THEN <<".">> ELSE <<>>))

\* if infix: ms[0] = '.' else: ms[0] = ''
StoreZero(m, a) == Store(m, 0, IF a.infix THEN <<".">> ELSE <<>>)

\* the table after the three writes of a call: ms[6] = mega, ms[-6] = micro,
\* ms[0] = '.' or ''
MsWritten(m, a) == StoreZero(StoreMicro(StoreMega(m, a), a), a)

\* the body of eng_str for the arguments a: m is the table the call finds,
\* ms1 the table at the moment the call reads ms[exp] for its return value (in
\* a call that runs alone: m after its own three writes).  The result (res)
\* and the table the call leaves (ms).  a.tie is the direction in which the e
\* format rounds a tie.
eng_str_body(m, ms1, a) ==
    LET digits == ClampDigits(a.digits)
        e_str  == FormatE(a.x, digits - 1, a.tie)
        sign0  == Slice(e_str, 0, 1)
        ipart0 == Slice(e_str, 1, 2)
        fpart0 == Slice(e_str, 3, digits + 2)
        epos   == Find(e_str, <<"e">>)
        expf   == ParseInt(SliceFrom(e_str, epos + 1))
        e      == expf.val
        adjustment == Adjustment(e)
        fpart1 == PadZeros(fpart0, adjustment)
        ipart  == ipart0 \o Slice(fpart1, 0, adjustment)
        fpart2 == SliceFrom(fpart1, adjustment)
        exp    == e - adjustment
        fpart  == StripFpart(fpart2, a.show_trailing_zeros)
        dp     == IF fpart = <<>> THEN <<>> ELSE <<".">>
        hilim  == Hilim(a.limits)
        lolim  == Lolim(a.limits)
        can_subs == lolim <= exp /\ exp <= hilim
        mult   == ExpMult(exp)
        sign   == IF ~a.show_plus /\ sign0 = <<"+">> THEN <<>> ELSE sign0
        loc    == [e_str |-> e_str, digits |-> digits, sign |-> sign, ipart |-> ipart,
                   dp |-> dp, fpart |-> fpart, e |-> e, adjustment |-> adjustment,
                   exp |-> exp, hilim |-> hilim, lolim |-> lolim, can_subs |-> can_subs]
    IN  IF ~expf.ok THEN [res |-> StrRaised("ValueError", NoLocals), ms |-> m]
        ELSE IF can_subs /\ exp \notin DOMAIN ms1
             THEN [res |-> StrRaised("KeyError", loc), ms |-> ms1]
        ELSE IF a.infix /\ can_subs
             THEN [res |-> StrReturned(sign \o ipart \o ms1[exp] \o fpart, loc), ms |-> ms1]
        ELSE IF can_subs
             THEN [res |-> StrReturned(sign \o ipart \o dp \o fpart \o ms1[exp], loc), ms |-> ms1]
        ELSE [res |-> StrReturned(sign \o ipart \o dp \o fpart \o mult, loc), ms |-> ms1]

\* the call eng_str(a.x, a.digits, a.limits, a.micro, a.mega, a.infix, a.show_plus,
\* a.show_trailing_zeros) on the table m, run from its first line to its return
\* with no other call in between
eng_str(m, a) == eng_str_body(m, MsWritten(m, a), a)

-----------------------------------------------------------------------------
(* The calls the model makes *)

\* all sequences over the set S of length at most n
RECURSIVE SeqsUpTo(_, _)
SeqsUpTo(S, n) ==
    IF n = 0 THEN {<<>>}
    ELSE LET shorter == SeqsUpTo(S, n - 1)
         IN  shorter \cup {Append(t, c) : t \in shorter, c \in S}

\* the digit strings drawn for the numeral that starts a text
DigitStrings == SeqsUpTo({"0", "1"}, MaxLen)

\* an exponent beyond the range of a double
HugeExponent == <<"4", "0", "0">>

\* the digit strings drawn for the numeral after the middle of a text
AfterStrings == SeqsUpTo({"0", "3"}, MaxLenAfter) \cup {<<"1", "0">>, HugeExponent}

\* the prefixes eng_float is documented to understand, with their powers of
\* ten: the BIPM letters, both micros, d, c, h, da and the SPICE megs
BIPMLetters ==
    {<<<<"y">>, -24>>, <<<<"z">>, -21>>, <<<<"a">>, -18>>, <<<<"f">>, -15>>,
     <<<<"p">>, -12>>, <<<<"n">>, -9>>, <<<<"u">>, -6>>, <<<<"m">>, -3>>,
     <<<<"k">>, 3>>, <<<<"M">>, 6>>, <<<<"G">>, 9>>, <<<<"T">>, 12>>,
     <<<<"P">>, 15>>, <<<<"E">>, 18>>, <<<<"Z">>, 21>>, <<<<"Y">>, 24>>}

LongPrefixes ==
    {<<<<"d", "a">>, 1>>,
     <<<<"m", "e", "g">>, 6>>, <<<<"M", "e", "g">>, 6>>, <<<<"M", "E", "G">>, 6>>,
     <<<<"m", "e", "g", "a">>, 6>>, <<<<"M", "e", "g", "a">>, 6>>,
     <<<<"M", "E", "G", "A">>, 6>>}

DocumentedPrefixes ==
    BIPMLetters \cup LongPrefixes
    \cup {<<<<MICRO_SIGN>>, -6>>, <<<<GREEK_MU>>, -6>>,
          <<<<"d">>, -1>>, <<<<"c">>, -2>>, <<<<"h">>, 2>>}

Tokens == {p[1] : p \in DocumentedPrefixes}

\* what a text starts with; a text that starts with a blank ends with one
Prefixes == {<<>>, <<"-">>, <<" ", "+">>}

\* the middle and the end of a text: a token at the end after a plain or a
\* decimal numeral, a token (or an exponent letter, or a letter that is no
\* token) in the middle, and ends that leave something after a token
Shapes ==
    {<<mid, tail>> : mid \in {<<>>, <<".">>}, tail \in Tokens \cup {<<>>, <<"t">>, <<"m", "m">>}}
    \cup {<<mid, <<>>>> : mid \in Tokens \cup {<<"e">>, <<"t">>}}
    \cup {<<mid, <<"m">>>> : mid \in {<<"k">>, <<"E">>, <<"e">>}}

TextOf(pre, a, mid, b, tail) ==
    pre \o a \o mid \o b \o tail \o (IF pre # <<>> /\ pre[1] = " " THEN <<" ">> ELSE <<>>)

Texts ==
    {TextOf(pre, a, sh[1], b, sh[2]) :
        pre \in Prefixes, a \in DigitStrings, b \in AfterStrings, sh \in Shapes}
    \cup {<<"i", "n", "f">>, <<"-", "i", "n", "f">>, <<"n", "a", "n">>, <<" ">>}

\* the double whose decimal digits are m, the first of them at 10^sci
Sci(neg, m, sci) == Dec(neg, m, sci - Len(m) + 1)

ExtremeExp == 306

\* one-digit values over the whole range of the prefixes and beyond, the
\* extremes of the doctest, and the doubles that are no numbers
WideDoubles ==
    {Sci(FALSE, <<4>>, s) : s \in (-MaxExp..MaxExp) \cup {-ExtremeExp, ExtremeExp}}
    \cup {Zero(FALSE), Zero(TRUE), Inf(FALSE), Inf(TRUE), NaN}

NarrowExp == 2

\* values of several digits, of both signs: 95 and 995 round to a tie and carry
NarrowDoubles ==
    {Sci(neg, m, s) : neg \in BOOLEAN, m \in {<<9, 5>>, <<9, 9, 5>>, <<3, 1, 4, 2>>},
                      s \in -NarrowExp..NarrowExp}

MinDigits == 0

DigitsArgs == MinDigits..MaxDigitsArg

LimitsArgs == {<<-12, 9>>, <<9, -12>>, <<100, -100>>, <<3, 9>>}

\* the (micro, mega) pairs: the defaults, and a unicode micro with SPICE's meg
TokenArgs == {<<<<"u">>, <<"M">>>>, <<<<MICRO_SIGN>>, <<"m", "e", "g">>>>}

StrArgs(x, digits, limits, tk, infix, show_plus, stz) ==
    [op |-> "eng_str", x |-> x, digits |-> digits, limits |-> limits,
     micro |-> tk[1], mega |-> tk[2], infix |-> infix,
     show_plus |-> show_plus, show_trailing_zeros |-> stz, tie |-> FALSE]

\* the calls of eng_str: every window, token pair and layout on the wide
\* values, every sign, zero and layout option on the narrow ones
StrCalls ==
    {StrArgs(x, digits, limits, tk, infix, FALSE, FALSE) :
        x \in WideDoubles, digits \in DigitsArgs, limits \in LimitsArgs,
        tk \in TokenArgs, infix \in BOOLEAN}
    \cup
    {StrArgs(x, digits, limits, <<<<"u">>, <<"M">>>>, infix, show_plus, stz) :
        x \in NarrowDoubles, digits \in DigitsArgs, limits \in {<<-12, 9>>, <<3, 9>>},
        infix \in BOOLEAN, show_plus \in BOOLEAN, stz \in BOOLEAN}

\* the ways the e format can round x to digits places: both on a tie
TieChoices(x, digits) ==
    IF x.k = "fin" /\ IsTie(x.dig, ClampDigits(digits))
    THEN BOOLEAN ELSE {FALSE}

NoArgs == [op |-> "none"]

NoResult == [ok |-> TRUE]

\* the threads of the program that call into the module
Threads == {"t1", "t2"}

\* a thread that is in no call
IdleThread == [pc |-> "idle", args |-> NoArgs, result |-> NoResult]

Init ==
    /\ ms = ms_loaded
    /\ pc = "idle"
    /\ args = NoArgs
    /\ result = NoResult
    /\ th = [t \in Threads |-> IdleThread]
    /\ gui = [created |-> FALSE]

\* a caller calls eng_float(x_org)
CallEngFloat ==
    /\ pc = "idle"
    /\ \E t \in Texts :
        /\ args' = [op |-> "eng_float", x_org |-> t]
        /\ result' = eng_float(t)
    /\ pc' = "eng_float"
    /\ UNCHANGED <<ms, th, gui>>

\* a caller calls eng_str(x, digits, limits, micro, mega, infix, show_plus,
\* show_trailing_zeros)
CallEngStr ==
    /\ pc = "idle"
    /\ \E c \in StrCalls :
        \E tie \in TieChoices(c.x, c.digits) :
            LET a == [c EXCEPT !.tie = tie]
                r == eng_str(ms, a)
            IN  /\ args' = a
                /\ result' = r.res
                /\ ms' = r.ms
    /\ pc' = "eng_str"
    /\ UNCHANGED <<th, gui>>

\* the caller has its result; the next call can be made
Return ==
    /\ pc # "idle"
    /\ pc' = "idle"
    /\ args' = NoArgs
    /\ result' = NoResult
    /\ UNCHANGED <<ms, th, gui>>

Next == CallEngFloat \/ CallEngStr \/ Return

\* any sequence of calls of the two functions
Spec == Init /\ [][Next]_vars

NextParse == CallEngFloat \/ Return

\* a program that calls eng_float only
SpecParse == Init /\ [][NextParse]_vars

NextFormat == CallEngStr \/ Return

\* a program that calls eng_str only
SpecFormat == Init /\ [][NextFormat]_vars

-----------------------------------------------------------------------------
(* Calls from several threads.  A thread can be suspended between any two    *)
(* bytecodes, so each write of eng_str to the module's dict ms is a step of  *)
(* its own, and so is the read of ms[exp] for the return value.  eng_float   *)
(* reads the weights tables only, which nothing writes: one step.            *)

\* no other thread is inside a call
Alone(t) == \A u \in Threads \ {t} : th[u].pc \in {"idle", "done"}

\* thread t calls eng_float(x_org) and gets its result
ThreadEngFloat(t) ==
    LET
        \* the texts the threads give to eng_float: '1' and a documented prefix, an
        \* infix, and a letter that is no prefix
        ThreadTexts ==
            {<<"1">> \o p[1] : p \in DocumentedPrefixes} \cup {<<"1", "k", "3">>, <<"1", "t">>}
    IN
    /\ th[t].pc = "idle"
    /\ \E x \in ThreadTexts :
        th' = [th EXCEPT ![t] = [pc |-> "done",
                                 args |-> [op |-> "eng_float", x_org |-> x],
                                 result |-> eng_float(x)]]
    /\ UNCHANGED <<ms, pc, args, result, gui>>

\* thread t calls eng_str and runs it up to the first write of ms; a call that
\* raises while it pulls the fields of the e format apart ends here
ThreadEngStr(t) ==
    LET
        \* the calls of eng_str the threads make: each token pair, infix or not
        ThreadStrCalls ==
            LET
                \* values whose exp3 is -6, 0, 3 and 6, and one the e format has no exponent for
                ThreadDoubles == {Sci(FALSE, <<4>>, s) : s \in {-6, 0, 3, 6}} \cup {Inf(FALSE)}
            IN
            {StrArgs(x, 2, <<-12, 9>>, tk, infix, FALSE, FALSE) :
                x \in ThreadDoubles, tk \in TokenArgs, infix \in BOOLEAN}
    IN
    /\ th[t].pc = "idle"
    /\ \E a \in ThreadStrCalls :
        LET r == eng_str_body(ms, ms, a).res
        IN  th' = [th EXCEPT ![t] =
                      IF r.exc = "ValueError"
                      THEN [pc |-> "done", args |-> a, result |-> r]
                      ELSE [pc |-> "store_mega", args |-> a, result |-> NoResult]]
    /\ UNCHANGED <<ms, pc, args, result, gui>>

\* ms[6] = mega
ThreadStoreMega(t) ==
    /\ th[t].pc = "store_mega"
    /\ ms' = StoreMega(ms, th[t].args)
    /\ th' = [th EXCEPT ![t].pc = "store_micro"]
    /\ UNCHANGED <<pc, args, result, gui>>

\* ms[-6] = micro
ThreadStoreMicro(t) ==
    /\ th[t].pc = "store_micro"
    /\ ms' = StoreMicro(ms, th[t].args)
    /\ th' = [th EXCEPT ![t].pc = "store_zero"]
    /\ UNCHANGED <<pc, args, result, gui>>

\* ms[0] = '.' or ''
ThreadStoreZero(t) ==
    /\ th[t].pc = "store_zero"
    /\ ms' = StoreZero(ms, th[t].args)
    /\ th' = [th EXCEPT ![t].pc = "format"]
    /\ UNCHANGED <<pc, args, result, gui>>

\* the rest of the call: can_subs, the read of ms[exp] and the return
ThreadFormat(t) ==
    /\ th[t].pc = "format"
    /\ th' = [th EXCEPT ![t].pc = "done",
                         ![t].result = eng_str_body(ms, ms, th[t].args).res]
    /\ UNCHANGED <<ms, pc, args, result, gui>>

\* the caller has used the result; the thread can make its next call
ThreadReturn(t) ==
    /\ th[t].pc = "done"
    /\ th' = [th EXCEPT ![t] = IdleThread]
    /\ UNCHANGED <<ms, pc, args, result, gui>>

\* a step inside a call of eng_str
ThreadStep(t) ==
    ThreadStoreMega(t) \/ ThreadStoreMicro(t) \/ ThreadStoreZero(t) \/ ThreadFormat(t)

NextThreads ==
    \E t \in Threads :
        ThreadEngFloat(t) \/ ThreadEngStr(t) \/ ThreadStep(t) \/ ThreadReturn(t)

\* threads that call the two functions with no coordination
SpecThreads == Init /\ [][NextThreads]_vars

NextSequential ==
    \E t \in Threads :
        \/ Alone(t) /\ ThreadEngFloat(t)
        \/ Alone(t) /\ ThreadEngStr(t)
        \/ ThreadStep(t)
        \/ ThreadReturn(t)

\* callers whose calls never overlap: a call starts when no other is running
SpecSequential == Init /\ [][NextSequential]_vars

-----------------------------------------------------------------------------
(* gui_input_widget.py: EntryLine and GUI_inputs.  The Tk widgets are kept  *)
(* as their state: the text of an entry's StringVar, the state of the        *)
(* execute button, the IntVar of the 'exec on enter' tick box.  A write of   *)
(* the StringVar runs the trace callback _changed at once; an exception that *)
(* leaves a Tk callback is reported by Tk and ends the callback.             *)

\* Python values that a conversion takes or returns
NoneValue == [t |-> "None", v |-> <<>>]

StrValue(s) == [t |-> "str", v |-> s]

\* x.split(',')
RECURSIVE Split(_)
Split(x) ==
    LET p == Find(x, <<",">>)
    IN  IF p < 0 THEN <<x>> ELSE <<Slice(x, 0, p)>> \o Split(SliceFrom(x, p + 1))

\* the outcome of a call of a conversion function: a value, or an exception
ConvReturned(v) == [exc |-> "none", val |-> v]

ConvRaised(exc) == [exc |-> exc, val |-> NoneValue]

\* float_pair(x): x.split(',') needs a string; two fields, each read by float()
float_pair(x) ==
    LET
        ListValue(l) == [t |-> "list", v |-> l]
    IN
    IF x.t # "str" THEN ConvRaised("AttributeError")
    ELSE LET Pair(fields) ==
                 IF Len(fields) # 2 THEN ConvRaised("ValueError")
                 ELSE LET Floats(f) ==
                              IF \E i \in 1..2 : ~f[i].ok THEN ConvRaised("ValueError")
                              ELSE ConvReturned(ListValue([i \in 1..2 |-> f[i].val]))
                      IN  Floats([i \in 1..2 |-> ParseFloat(fields[i])])
         IN  Pair(Split(x.v))

\* self.conv(x)
Conv(conv, x) ==
    LET
        \* int(x)
        conv_int ==
            LET
                IntValue(n) == [t |-> "int", v |-> n]
            IN
            IF x.t = "int" THEN ConvReturned(x)
            ELSE IF x.t # "str" THEN ConvRaised("TypeError")
            ELSE IF ParseInt(x.v).ok THEN ConvReturned(IntValue(ParseInt(x.v).val))
            ELSE ConvRaised("ValueError")
        \* str(x)
        conv_str ==
            IF x.t = "str" THEN ConvReturned(x)
            ELSE IF x.t = "None" THEN ConvReturned(StrValue(<<"N", "o", "n", "e">>))
            ELSE IF x.t = "int" THEN ConvReturned(StrValue(IntStr(x.v)))
            ELSE ConvRaised("TypeError")
    IN
    CASE conv = "int" -> conv_int
      [] conv = "str" -> conv_str
      [] conv = "float_pair" -> float_pair(x)

\* self.err: '' or the ValueError that conv raised for the text
NoErr == [exc |-> "none", text |-> <<>>]

ErrOf(text) == [exc |-> "ValueError", text |-> text]

\* EntryLine._changed with ent_val the text of the StringVar: the entry as the
\* callback leaves it, whether it got as far as self.update(), and the
\* exception that left it
_changed(e, ent_val) ==
    LET \* r is what self.conv(ent_val) does, d what self.conv(self.default) does
        Outcome(e1, r, d) ==
            IF r.exc = "none"
            THEN [entry |-> [e1 EXCEPT !.value = r.val, !.err = NoErr, !.valid = TRUE],
                  updates |-> TRUE, raised |-> "none"]
            ELSE IF r.exc # "ValueError"
            THEN [entry |-> e1, updates |-> FALSE, raised |-> r.exc]
            ELSE IF d.exc = "none"
            THEN [entry |-> [e1 EXCEPT !.value = d.val, !.err = ErrOf(ent_val), !.valid = FALSE],
                  updates |-> TRUE, raised |-> "none"]
            ELSE IF d.exc \in {"TypeError", "ValueError"}
            THEN [entry |-> [e1 EXCEPT !.value = e.default, !.err = ErrOf(ent_val),
                                       !.valid = FALSE],
                  updates |-> TRUE, raised |-> "none"]
            ELSE [entry |-> e1, updates |-> FALSE, raised |-> d.exc]
    IN  Outcome([e EXCEPT !.val_string = ent_val], Conv(e.conv, StrValue(ent_val)),
                Conv(e.conv, e.default))

\* all(valids) over the entries of the widget
AllValid(entries) == \A k \in DOMAIN entries : entries[k].valid

\* GUI_inputs.update(enter): the widget g afterwards
update(g, enter) ==
    IF ~g.execute THEN g
    ELSE IF AllValid(g.entries)
    THEN [g EXCEPT !.execute_but = "normal",
                   !.executed = g.executed \/ (enter /\ g.exec_ent_var = 1)]
    ELSE [g EXCEPT !.execute_but = "disabled"]

\* a write of the StringVar of the entry key that is on the widget g
\* (typing, EntryLine.put, GUI_inputs.set_data): _changed, and update if
\* _changed reaches it
put(g, key, value) ==
    LET After(c) ==
            IF c.updates
            THEN update([g EXCEPT !.entries[key] = c.entry, !.raised = c.raised], FALSE)
            ELSE [g EXCEPT !.entries[key] = c.entry, !.raised = c.raised]
    IN  After(_changed(g.entries[key], value))

\* GUI_inputs.add: the EntryLine is made, which writes its StringVar and so
\* runs _changed and update, and then it is put into self.entries
add(g, key, data, conv, default) ==
    LET
        \* EntryLine.__init__ up to the write of the StringVar
        NewEntryLine ==
            LET
                \* if conv: ... else: self.conv = str
                ConvOrStr == IF conv = "None" THEN "str" ELSE conv
            IN
            [val_string |-> <<>>, conv |-> ConvOrStr, default |-> default,
             err |-> NoErr, value |-> NoneValue, valid |-> FALSE]
        \* self.entries[key] = mle, on the widget g2 that the write left
        Stored(g2, mle) == [g2 EXCEPT !.entries = (key :> mle) @@ g2.entries]
        After(c) ==
            Stored(IF c.updates THEN update([g EXCEPT !.raised = c.raised], FALSE)
                   ELSE [g EXCEPT !.raised = c.raised], c.entry)
    IN  After(_changed(NewEntryLine, data))

\* for key in can_update: self.set_data(key, src_dict[key]), the keys taken in
\* the sequence order
RECURSIVE set_all(_, _, _)
set_all(g, order, src_dict) ==
    IF order = <<>> THEN g
    ELSE set_all(put(g, Head(order), src_dict[Head(order)]), Tail(order), src_dict)

\* GUI_inputs.get()
get(g) == [k \in DOMAIN g.entries |-> g.entries[k].value]

\* the keys, texts, conversions and defaults of the entries
Keys == {"k1", "k2"}

EntryTexts == {<<>>, <<"3">>, <<"3", ",", "4">>}

\* basic = GUI_inputs(root) / full = GUI_inputs(root, execute=execute_func)
GuiCreate ==
    /\ ~gui.created
    /\ \E execute \in BOOLEAN :
        gui' = [created |-> TRUE, execute |-> execute, entries |-> <<>>,
                execute_but |-> IF execute THEN "disabled" ELSE "none",
                exec_ent_var |-> 0, executed |-> FALSE, raised |-> "none"]
    /\ UNCHANGED <<ms, pc, args, result, th>>

\* widget.add(key, data=data, conv=conv, default=default) with a new key
GuiAdd ==
    LET
        ConvArgs == {"None", "int", "str", "float_pair"}
        DefaultArgs == {NoneValue, StrValue(<<"7">>), StrValue(<<"x">>)}
    IN
    /\ gui.created
    /\ \E key \in Keys \ DOMAIN gui.entries, data \in EntryTexts,
          conv \in ConvArgs, default \in DefaultArgs :
        gui' = add([gui EXCEPT !.executed = FALSE], key, data, conv, default)
    /\ UNCHANGED <<ms, pc, args, result, th>>

\* the user types into an entry, or the program calls set_data / put
GuiPut ==
    /\ gui.created
    /\ \E key \in DOMAIN gui.entries, value \in EntryTexts :
        /\ value # gui.entries[key].val_string
        /\ gui' = put([gui EXCEPT !.executed = FALSE], key, value)
    /\ UNCHANGED <<ms, pc, args, result, th>>

\* the load button: a file that holds texts for some keys
GuiLoad ==
    LET
        \* the sequences that hold each element of the set S once
        Orders(S) ==
            {o \in [1..Cardinality(S) -> S] : \A i, j \in 1..Cardinality(S) : o[i] = o[j] => i = j}
    IN
    /\ gui.created
    /\ \E src_keys \in SUBSET Keys :
        \E src_dict \in [src_keys -> EntryTexts] :
            \E order \in Orders(src_keys \cap DOMAIN gui.entries) :
                /\ order # <<>>
                /\ gui' = set_all([gui EXCEPT !.executed = FALSE], order, src_dict)
    /\ UNCHANGED <<ms, pc, args, result, th>>

\* <Return> in an entry: _returned calls update(enter=True)
GuiEnter ==
    /\ gui.created
    /\ DOMAIN gui.entries # {}
    /\ gui' = update([gui EXCEPT !.executed = FALSE, !.raised = "none"], TRUE)
    /\ UNCHANGED <<ms, pc, args, result, th>>

\* the user ticks or clears 'exec on enter'
GuiTick ==
    /\ gui.created
    /\ gui.execute
    /\ gui' = [gui EXCEPT !.exec_ent_var = 1 - gui.exec_ent_var, !.executed = FALSE]
    /\ UNCHANGED <<ms, pc, args, result, th>>

\* the user presses the execute button, which Tk allows when it is not disabled
GuiExecute ==
    /\ gui.created
    /\ gui.execute_but = "normal"
    /\ ~gui.executed
    /\ gui' = [gui EXCEPT !.executed = TRUE]
    /\ UNCHANGED <<ms, pc, args, result, th>>

NextGui == GuiCreate \/ GuiAdd \/ GuiPut \/ GuiLoad \/ GuiEnter \/ GuiTick \/ GuiExecute

\* a program that makes a GUI_inputs and a user who works with it
SpecGui == Init /\ [][NextGui]_vars

-----------------------------------------------------------------------------
(* quantiser.py.  The values of the bases have at most two decimals and are  *)
(* kept in hundredths; every basis ends with 10, so the range power          *)
(* floor(log(x)/log(base1)) of a double x is its decimal exponent and the    *)
(* ranged x is its mantissa.  The floating point arithmetic of the range     *)
(* reduction is exact up to its last bit: the quotient of the logarithms of  *)
(* a power of ten can fall just short of the integer (log(1000)/log(10) is   *)
(* 2.9999999999999996), and x * base1**(-exp) can miss the decimal value by  *)
(* one unit in the last place when exp is not 0.  Both are inputs (fl) of    *)
(* the model of quant.                                                       *)

\* the bases are written in hundredths
Unit == 100

\* nice oscilloscope and graph increments
q125 ==
    <<100, 200, 500, 1000>>

\* roughly 10dB steps
qE2 ==
    <<100, 300, 1000>>

\* very coarse resistor steps
qE3 ==
    <<100, 220, 470, 1000>>

\* capacitor voltages
qE5 ==
    <<100, 160, 250, 400, 630, 1000>>

\* coarse resistor steps
qE6 ==
    <<100, 150, 220, 330, 470, 680, 1000>>

\* log10 approximation
qE10 ==
    <<100, 125, 160, 200, 250, 320, 400, 500, 630, 800, 1000>>

\* common resistor steps
qE12 ==
    <<100, 120, 150, 180, 220, 270, 330, 390, 470, 560, 680, 820, 1000>>

\* common professional resistor steps, "E12 superset"
qE24 ==
    <<100, 110, 120, 130, 150, 160, 180, 200, 220, 240, 270, 300, 330, 360,
      390, 430, 470, 510, 560, 620, 680, 750, 820, 910, 1000>>

\* fine resistor steps, "NOT an E24 superset"
qE48 ==
    <<100, 105, 110, 115, 121, 127, 133, 140, 147, 154, 162, 169, 178, 187,
      196, 205, 215, 226, 237, 249, 261, 274, 287, 301, 316, 332, 348, 365,
      383, 402, 422, 442, 464, 487, 511, 536, 562, 590, 619, 649, 681, 715,
      750, 787, 825, 866, 909, 953, 1000>>

\* very fine resistor steps, "E48 superset"
qE96 ==
    <<100, 102, 105, 107, 110, 113, 115, 118, 121, 124, 127, 130, 133, 137,
      140, 143, 147, 150, 154, 158, 162, 165, 169, 174, 178, 182, 187, 191,
      196, 200, 205, 210, 216, 221, 236, 232, 237, 243, 249, 255, 261, 267,
      274, 280, 287, 294, 301, 309, 316, 324, 332, 340, 348, 357, 365, 374,
      383, 392, 402, 412, 422, 432, 442, 453, 464, 475, 487, 491, 511, 523,
      536, 549, 562, 576, 590, 604, 619, 634, 649, 665, 681, 698, 715, 732,
      750, 768, 787, 806, 825, 845, 866, 887, 909, 931, 959, 976, 1000>>

\* the predefined quantisers by name
Bases ==
    [q125 |-> q125, qE2 |-> qE2, qE3 |-> qE3, qE5 |-> qE5, qE6 |-> qE6, qE10 |-> qE10,
     qE12 |-> qE12, qE24 |-> qE24, qE48 |-> qE48, qE96 |-> qE96]

\* basis[i] of Python (0-based)
At(basis, i) == basis[i + 1]

\* the number that a sequence of decimal digits writes
RECURSIVE DigitsNat(_)
DigitsNat(d) == IF d = <<>> THEN 0 ELSE 10 * DigitsNat(SubSeq(d, 1, Len(d) - 1)) + d[Len(d)]

\* the decimal exponent of the first digit of the double x: floor(log10(x))
SciExp(x) == x.e + Len(x.dig) - 1

\* the mantissa of the double x (at most three digits) in hundredths: 100 .. 999
Mantissa(x) == DigitsNat(x.dig \o Zeros(3 - Len(x.dig)))

\* while ihigh-ilow > 1: imid = int((ilow+ihigh)/2) ...
RECURSIVE BinarySearch(_, _, _, _)
BinarySearch(basis, x_test, ilow, ihigh) ==
    LET
        \* x_test > b
        Greater(b) == x_test.m > b \/ (x_test.m = b /\ x_test.ulp > 0)
    IN
    IF ihigh - ilow > 1
    THEN LET imid == (ilow + ihigh) \div 2
         IN  IF Greater(At(basis, imid))
             THEN BinarySearch(basis, x_test, imid, ihigh)
             ELSE BinarySearch(basis, x_test, ilow, imid)
    ELSE [ilow |-> ilow, ihigh |-> ihigh]

\* the bound that nearest asks for
ChooseIndex(basis, x_test, nearest, b) ==
    LET
        \* lowrat < highrat, with lowrat = x_test/basis[ilow] and
        \* highrat = basis[ihigh]/x_test
        LowratLess(low, high) ==
            \/ x_test.m * x_test.m < low * high
            \/ (x_test.m * x_test.m = low * high /\ x_test.ulp < 0)
    IN
    IF nearest = 0
    THEN (IF LowratLess(At(basis, b.ilow), At(basis, b.ihigh)) THEN b.ilow ELSE b.ihigh)
    ELSE IF nearest > 0 THEN b.ihigh
    ELSE b.ilow

\* while index<0: index += lbm1; exp -= 1
RECURSIVE WrapBelow(_, _, _)
WrapBelow(index, exp, lbm1) ==
    IF index < 0 THEN WrapBelow(index + lbm1, exp - 1, lbm1)
    ELSE [index |-> index, exp |-> exp]

\* a wrap into the next range that lets the index stop on the last entry
RECURSIVE WrapAbove_PastEnd(_, _, _)
WrapAbove_PastEnd(index, exp, lbm1) ==
    IF index > lbm1 THEN WrapAbove_PastEnd(index - lbm1, exp + 1, lbm1)
    ELSE [index |-> index, exp |-> exp]

\* while index>=lbm1: index -= lbm1; exp += 1
RECURSIVE WrapAbove(_, _, _)
WrapAbove(index, exp, lbm1) ==
    IF index >= lbm1 THEN WrapAbove(index - lbm1, exp + 1, lbm1)
    ELSE [index |-> index, exp |-> exp]

\* quant(x, nearest, offset) of make_quant(basis): the result
\* sign*basis[index]*(base1**exp) as its three factors, and the bounds that
\* the binary search found
quant(basis, x, nearest, offset, fl) ==
    LET
        \* exp = math.floor(math.log(x_test)/math.log(base1))
        RangeExp == IF fl.short THEN SciExp(x) - 1 ELSE SciExp(x)
        \* x_test *= base1**(-exp): the decimal value m (hundredths) and the side on
        \* which the double lies of it
        RangedX == [m |-> IF fl.short THEN 10 * Mantissa(x) ELSE Mantissa(x), ulp |-> fl.ulp]
        \* return 0
        QuantZero ==
            [zero |-> TRUE, sign |-> 1, index |-> 0, exp |-> 0, ilow |-> 0, ihigh |-> 0,
             x_test |-> [m |-> 0, ulp |-> 0]]
    IN
    LET lbm1   == Len(basis) - 1
        exp    == RangeExp
        x_test == RangedX
        b      == BinarySearch(basis, x_test, 0, lbm1)
        index  == ChooseIndex(basis, x_test, nearest, b) + offset
        w1     == WrapBelow(index, exp, lbm1)
        w2     == WrapAbove(w1.index, w1.exp, lbm1)
    IN  IF x.k = "zero" \/ (x.k = "fin" /\ SciExp(x) < -100) THEN QuantZero
        ELSE [zero |-> FALSE, sign |-> IF x.neg THEN -1 ELSE 1,
              index |-> w2.index, exp |-> w2.exp,
              ilow |-> b.ilow, ihigh |-> b.ihigh, x_test |-> x_test]

\* largest range power of the values given to quant
MaxQuantExp == 3

\* largest offset given to quant
MaxOffset == 7

QuantCall(name, x, nearest, offset) ==
    [op |-> "quant", basis |-> name, x |-> x, nearest |-> nearest, offset |-> offset,
     fl |-> [short |-> FALSE, ulp |-> 0]]

\* the calls of the quantisers: three of them with every mantissa, nearest and
\* offset, all of them on the values of the doctest and on a zero
QuantCalls ==
    LET
        \* the mantissas of the values given to quant: on and between the values of
        \* the bases
        QuantMantissas ==
            {<<1>>, <<1, 2>>, <<1, 6>>, <<1, 7>>, <<2>>, <<2, 3, 4>>, <<5>>, <<8, 3>>, <<9, 9, 9>>}
    IN
    {QuantCall(name, Sci(neg, m, s), nearest, offset) :
        name \in {"q125", "qE2", "qE12"}, neg \in BOOLEAN, m \in QuantMantissas,
        s \in -MaxQuantExp..MaxQuantExp, nearest \in {-1, 0, 1},
        offset \in -MaxOffset..MaxOffset}
    \cup
    {QuantCall(name, x, nearest, offset) :
        name \in DOMAIN Bases,
        x \in {Sci(FALSE, <<1, 6>>, 0), Sci(FALSE, <<8, 3>>, 0), Sci(FALSE, <<1, 7>>, 1),
               Sci(FALSE, <<1, 7>>, -1), Sci(FALSE, <<2, 3, 4>>, 0), Zero(FALSE)},
        nearest \in {-1, 0, 1}, offset \in {0, 4, -13}}

\* a caller calls one of the quantisers
CallQuant ==
    LET
        \* the outcomes of the floating point range reduction that x allows
        FloatChoices(x) ==
            {fl \in [short : BOOLEAN, ulp : {-1, 0, 1}] :
                /\ fl.short => (x.k = "fin" /\ x.dig = <<1>> /\ SciExp(x) # 0)
                /\ fl.ulp # 0 => (x.k = "fin" /\ (SciExp(x) - (IF fl.short THEN 1 ELSE 0)) # 0)}
    IN
    /\ pc = "idle"
    /\ \E c \in QuantCalls :
        \E fl \in FloatChoices(c.x) :
            /\ args' = [c EXCEPT !.fl = fl]
            /\ result' = quant(Bases[c.basis], c.x, c.nearest, c.offset, fl)
    /\ pc' = "quant"
    /\ UNCHANGED <<ms, th, gui>>

NextQuant == CallQuant \/ Return

\* a program that calls the quantisers
SpecQuant == Init /\ [][NextQuant]_vars

-----------------------------------------------------------------------------
(* time_funcs.py.  A time is a number of ticks since the epoch (start_time   *)
(* is a float: it has a fraction of a second); time.localtime and            *)
(* time.mktime are those of the C library for the time zone of the process:  *)
(* localtime gives the calendar day, the second of the day and the flag      *)
(* tm_isdst of an instant, mktime reads the fields with the offset from UTC  *)
(* that the flag tm_isdst it is given names.                                 *)

\* the fraction of a second that a time can have: ticks in a second
TicksPerSecond == 4

DaySeconds == 86400

HourSeconds == 3600

\* a time zone: its standard offset from UTC in seconds, and, if it has
\* daylight saving time, the instants (seconds since the epoch) at which the
\* clocks go forward (01:00 standard time of day 2) and back (02:00 daylight
\* time of day 4)
Zone(std, dst) ==
    [std |-> std, dst |-> dst,
     forward |-> 2 * DaySeconds + HourSeconds - std,
     back |-> 4 * DaySeconds + 2 * HourSeconds - (std + HourSeconds)]

\* time.localtime(t) for t in ticks: the fraction is dropped
localtime(z, t) ==
    LET
        \* daylight saving time is in force in zone z at the instant s (seconds)
        IsDst(s) == z.dst /\ z.forward <= s /\ s < z.back
    IN
    LET whole == t \div TicksPerSecond
        isdst == IsDst(whole)
        local == whole + z.std + (IF isdst THEN HourSeconds ELSE 0)
    IN  [day |-> local \div DaySeconds, sod |-> local % DaySeconds,
         isdst |-> IF isdst THEN 1 ELSE 0]

\* time.mktime(st), in ticks
mktime(z, st) ==
    (st.day * DaySeconds + st.sod - z.std - st.isdst * HourSeconds) * TicksPerSecond

\* math.ceil((start_time-sec_zero)/secs)
Periods(elapsed, secs) == -((-elapsed) \div secs)

\* seconds_to_round_time(start_time, secs) in the zone z, all times in ticks
seconds_to_round_time(z, start_time, secs) ==
    LET st       == localtime(z, start_time)
        sec_zero == mktime(z, [st EXCEPT !.sod = 0])
        periods  == Periods(start_time - sec_zero, secs)
        ft       == sec_zero + periods * secs
    IN  [r |-> ft - start_time, sec_zero |-> sec_zero, periods |-> periods]

\* a caller calls seconds_to_round_time(start_time, secs); start_time=None is
\* the time of the call
CallSecondsToRoundTime ==
    LET
        Zones == {Zone(0, FALSE), Zone(19800, FALSE), Zone(0, TRUE), Zone(-18000, TRUE)}
        \* the days on which the calls are made: an ordinary day, the day the clocks
        \* go forward, a day of daylight time, the day the clocks go back
        TimeDays == 1..4
        \* the times of day of the calls, in ticks after 00:00 standard time: on a
        \* boundary, a tick before and after one, and late enough in the day for a
        \* change of the clocks to have happened
        TimesOfDay ==
            {0, 1, 10 * TicksPerSecond - 1, 10 * TicksPerSecond, 1800 * TicksPerSecond,
             HourSeconds * TicksPerSecond, 2 * HourSeconds * TicksPerSecond - 1,
             12 * HourSeconds * TicksPerSecond, 13 * HourSeconds * TicksPerSecond + 1,
             DaySeconds * TicksPerSecond - 1}
        \* the periods asked for, in ticks: a tick, 10 s, one hour, two hours, 11.5 hours
        SecsArgs ==
            {1, 10 * TicksPerSecond, HourSeconds * TicksPerSecond, 2 * HourSeconds * TicksPerSecond,
             41400 * TicksPerSecond}
    IN
    /\ pc = "idle"
    /\ \E z \in Zones, day \in TimeDays, tod \in TimesOfDay, secs \in SecsArgs :
        LET start_time == (day * DaySeconds - z.std) * TicksPerSecond + tod
        IN  /\ args' = [op |-> "seconds_to_round_time", zone |-> z,
                        start_time |-> start_time, secs |-> secs]
            /\ result' = seconds_to_round_time(z, start_time, secs)
    /\ pc' = "seconds_to_round_time"
    /\ UNCHANGED <<ms, th, gui>>

NextTime == CallSecondsToRoundTime \/ Return

\* a program that calls seconds_to_round_time
SpecTime == Init /\ [][NextTime]_vars

-----------------------------------------------------------------------------
(* Properties of eng_float *)

\* number of characters of s from (1-based) position i on that are no digits
RECURSIVE CountNonDigits(_, _)
CountNonDigits(s, i) ==
    IF i <= Len(s) /\ ~IsDigit(s[i]) THEN 1 + CountNonDigits(s, i + 1) ELSE 0

\* a text read as  blanks sign a mid b tail blanks:  a and b are the first two
\* runs of digits, mid is what stands between them, tail what follows b
Parts(t) ==
    LET x   == Strip(t)
        sgn == x # <<>> /\ x[1] \in {"+", "-"}
        p1  == IF sgn THEN 2 ELSE 1
        p2  == p1 + CountDigits(x, p1)
        p3  == p2 + CountNonDigits(x, p2)
        p4  == p3 + CountDigits(x, p3)
    IN  [sign |-> SubSeq(x, 1, p1 - 1), neg |-> sgn /\ x[1] = "-",
         a |-> SubSeq(x, p1, p2 - 1), mid |-> SubSeq(x, p2, p3 - 1),
         b |-> SubSeq(x, p3, p4 - 1), tail |-> SubSeq(x, p4, Len(x))]

\* a decimal numeral: an optional sign, digits, an optional point, no exponent
IsPlainNumeral(s) ==
    /\ ParseFloat(s).ok
    /\ \A i \in 1..Len(s) : IsDigit(s[i]) \/ s[i] \in {".", "+", "-"}

\* v * 10^w
Scaled(v, w) == IF v.k = "fin" THEN Dec(v.neg, v.dig, v.e + w) ELSE v

\* C1: eng_float returns what the direct parse gives whenever that succeeds:
\* a digit string a followed by 'E' and a digit string b is read as a * 10^b (the
\* scientific reading), and a followed by a bare 'E' as a * 10^18 (Exa).
C1_DirectParseFirst ==
    pc = "eng_float" =>
        /\ (Len(args.x_org) > 0 /\ ParseFloat(args.x_org).ok)
              => result = Returned(ParseFloat(args.x_org).val)
        /\ \A a \in DigitStrings \ {<<>>} :
              /\ args.x_org = a \o <<"E">>
                    => result = Returned(Dec(FALSE, DigitVals(a), 18))
              /\ \A b \in AfterStrings \ {<<>>} :
                    args.x_org = a \o <<"E">> \o b
                        => result = Returned(Dec(FALSE, DigitVals(a), NatOf(b)))

\* '10E3' has been parsed, and read as 10 * 10^3
C1_Witness ==
    /\ pc = "eng_float"
    /\ args.x_org = <<"1", "0", "E", "3">>
    /\ result = Returned(Dec(FALSE, <<1>>, 4))

\* C2: a decimal numeral n followed by mega, MEGA, Mega, meg, MEG or Meg is
\* n * 10^6 and n followed by da is n * 10; a text that ends in one of these
\* tokens is never taken apart through a shorter token that ends it too.
C2_LongestFirst ==
    pc = "eng_float" =>
        \A p \in LongPrefixes :
            LET x == Strip(args.x_org)
                n == SubSeq(x, 1, Len(x) - Len(p[1]))
            IN  EndsWith(x, p[1]) =>
                    /\ IsPlainNumeral(n)
                          => result = Returned(Scaled(ParseFloat(n).val, p[2]))
                    /\ ~result.ok
                          => /\ result.kind = "SuffixSubstitutionFailed"
                             /\ result.cand = p[1]

\* '-1.3Mega' has been parsed as -1.3 * 10^6
C2_Witness ==
    /\ pc = "eng_float"
    /\ args.x_org = <<"-", "1", ".", "3", "M", "e", "g", "a">>
    /\ result = Returned(Dec(TRUE, <<1, 3>>, 5))

\* C3: for every documented prefix T with weight w, eng_float('1' + T) is 10^w.
C3_EveryPrefix ==
    pc = "eng_float" =>
        \A p \in DocumentedPrefixes :
            args.x_org = <<"1">> \o p[1] => result = Returned(Dec(FALSE, <<1>>, p[2]))

\* '1' followed by the Greek mu has been parsed as 10^-6
C3_Witness ==
    /\ pc = "eng_float"
    /\ args.x_org = <<"1", GREEK_MU>>
    /\ result = Returned(Dec(FALSE, <<1>>, -6))

\* the text  sign a . b T  that writes with a suffix what  sign a T b  writes
\* with an infix
SuffixForm(P) == P.sign \o P.a \o <<".">> \o P.b \o P.mid

\* C4 as claimed: for every documented prefix T with weight w and all non-empty
\* digit strings a and b, optionally signed, a + T + b is a.b * 10^w, as is
\* a + '.' + b + T.
C4_SuffixInfixAgree ==
    pc = "eng_float" =>
        LET P == Parts(args.x_org)
            ab(w) == Dec(P.neg, DigitVals(P.a \o P.b), w - Len(P.b))
        IN  (P.a # <<>> /\ P.b # <<>>) =>
                \A p \in DocumentedPrefixes :
                    /\ (P.mid = <<".">> /\ P.tail = p[1]) => result = Returned(ab(p[2]))
                    /\ (P.mid = p[1] /\ P.tail = <<>>) => result = Returned(ab(p[2]))

\* C4, amended: the suffix form a + '.' + b + T is a.b * 10^w for every
\* documented prefix; the infix form a + T + b is the same value for every
\* prefix but 'E', and a + 'E' + b is a * 10^b.
C4_SuffixInfixAgreeButExa ==
    pc = "eng_float" =>
        LET P == Parts(args.x_org)
            ab(w) == Dec(P.neg, DigitVals(P.a \o P.b), w - Len(P.b))
        IN  (P.a # <<>> /\ P.b # <<>>) =>
                /\ \A p \in DocumentedPrefixes :
                    /\ (P.mid = <<".">> /\ P.tail = p[1]) => result = Returned(ab(p[2]))
                    /\ (P.mid = p[1] /\ P.tail = <<>> /\ p[1] # <<"E">>)
                          => /\ result = Returned(ab(p[2]))
                             /\ eng_float(SuffixForm(P)) = result
                /\ (P.mid = <<"E">> /\ P.tail = <<>>)
                      => result = Returned(Dec(P.neg, DigitVals(P.a), NatOf(P.b)))

\* '-1k3' has been parsed as -1.3 * 10^3
C4_Witness ==
    /\ pc = "eng_float"
    /\ args.x_org = <<"-", "1", "k", "3">>
    /\ result = Returned(Dec(TRUE, <<1, 3>>, 2))

\* the text with the token p at its end replaced by its exponent
SuffixReplaced(x, p) == SubSeq(x, 1, Len(x) - Len(p[1])) \o <<"e">> \o IntStr(p[2])

\* the text with the first occurrence of the token p replaced by a point, and
\* its exponent at the end
InfixReplaced(x, p) ==
    SubSeq(x, 1, Find(x, p[1])) \o <<".">>
    \o SubSeq(x, Find(x, p[1]) + Len(p[1]) + 1, Len(x)) \o <<"e">> \o IntStr(p[2])

\* C5: the outcome of eng_float is decided by the first stage that applies:
\* no text: EmptyInput; the direct parse succeeds: its value; the trimmed text
\* ends with a prefix: the substituted value or SuffixSubstitutionFailed, and no
\* infix is looked for; a prefix occurs in it: the substituted value or
\* InfixSubstitutionFailed; else NoMultiplierFound.  Every failure is a ValueError.
C5_OutcomeOrder ==
    pc = "eng_float" =>
        LET t    == args.x_org
            x    == Strip(t)
            sufs == {p \in DocumentedPrefixes : EndsWith(x, p[1])}
            infs == {p \in DocumentedPrefixes : Find(x, p[1]) >= 0}
        IN  /\ result.ok <=> result.kind = "none"
            /\ ~result.ok => result.exc = "ValueError"
            /\ IF Len(t) = 0 THEN result.kind = "EmptyInput"
               ELSE IF ParseFloat(t).ok THEN result = Returned(ParseFloat(t).val)
               ELSE IF sufs # {}
                    THEN \/ result.kind = "SuffixSubstitutionFailed"
                         \/ \E p \in sufs :
                               /\ ParseFloat(SuffixReplaced(x, p)).ok
                               /\ result = Returned(ParseFloat(SuffixReplaced(x, p)).val)
               ELSE IF infs # {}
                    THEN \/ result.kind = "InfixSubstitutionFailed"
                         \/ \E p \in infs :
                               /\ ParseFloat(InfixReplaced(x, p)).ok
                               /\ result = Returned(ParseFloat(InfixReplaced(x, p)).val)
               ELSE result.kind = "NoMultiplierFound"

\* '1.3mm' ends with a prefix and has failed in the suffix stage
C5_Witness ==
    /\ pc = "eng_float"
    /\ args.x_org = <<"1", ".", "3", "m", "m">>
    /\ result.kind = "SuffixSubstitutionFailed"

-----------------------------------------------------------------------------
(* Properties of eng_str *)

\* C6 as claimed: eng_str returns a string for every double, every digits and
\* every limits, and raises nothing.
C6_NeverFails == pc = "eng_str" => result.ok

\* the value that the digits of a result write: ipart.fpart * 10^exp
FieldsValue(neg, loc) == Dec(neg, DigitVals(loc.ipart \o loc.fpart), loc.exp - Len(loc.fpart))

\* C7: the exponent e of the e format is renormalised with adjustment = e mod 3
\* in {0, 1, 2}: exp3 = e - adjustment is a multiple of three and at most e, the
\* integer part has 1 + adjustment digits, and ipart.fpart * 10^exp3 is the
\* mantissa * 10^e of the e format.
C7_Renormalised ==
    (pc = "eng_str" /\ result.ok) =>
        LET loc == result.loc
        IN  /\ loc.adjustment \in {0, 1, 2}
            /\ loc.exp = loc.e - loc.adjustment
            /\ loc.exp % 3 = 0
            /\ loc.exp <= loc.e
            /\ Len(loc.ipart) = 1 + loc.adjustment
            /\ \A i \in 1..Len(loc.ipart) : IsDigit(loc.ipart[i])
            /\ ParseFloat(loc.e_str).ok
            /\ FieldsValue(args.x.neg, loc) = ParseFloat(loc.e_str).val

\* -9.95 * 10^-1 has been formatted to two digits: e = -1 gives adjustment 2
\* and exp3 = -3
C7_Witness ==
    /\ pc = "eng_str"
    /\ result.ok
    /\ args.x = Sci(TRUE, <<9, 9, 5>>, -1)
    /\ args.digits = 3
    /\ result.loc.e = -1
    /\ result.loc.adjustment = 2
    /\ result.loc.exp = -3

\* the token documented for a multiple of three in -24 .. 24: the caller's
\* strings at +6 and -6, nothing (or the point, in infix mode) at 0
DocumentedToken(exp, a) ==
    IF exp = 0 THEN (IF a.infix THEN <<".">> ELSE <<>>)
    ELSE IF exp = 6 THEN a.mega
    ELSE IF exp = -6 THEN a.micro
    ELSE (CHOOSE p \in BIPMLetters : p[2] = exp)[1]

\* C8: eng_str puts the prefix for exp3 exactly when
\* max(min(limits), -24) <= exp3 <= min(max(limits), 24), and else ends with 'e'
\* and the signed exp3; limits in either order give the same result; the lookup
\* of the prefix never misses; exp3 = 0 gives no token ('.' in infix mode) and
\* exp3 = +6 / -6 the caller's mega / micro.
C8_Substitution ==
    pc = "eng_str" =>
        /\ result.exc # "KeyError"
        /\ result.ok =>
            LET loc  == result.loc
                lo   == Max(Min(args.limits[1], args.limits[2]), -24)
                hi   == Min(Max(args.limits[1], args.limits[2]), 24)
                tok  == DocumentedToken(loc.exp, args)
                mag  == IF loc.exp < 0 THEN -loc.exp ELSE loc.exp
                swap == [args EXCEPT !.limits = <<args.limits[2], args.limits[1]>>]
            IN  /\ IF lo <= loc.exp /\ loc.exp <= hi
                   THEN result.str = IF args.infix
                                     THEN loc.sign \o loc.ipart \o tok \o loc.fpart
                                     ELSE loc.sign \o loc.ipart \o loc.dp \o loc.fpart \o tok
                   ELSE result.str = loc.sign \o loc.ipart \o loc.dp \o loc.fpart \o <<"e">>
                                     \o (IF loc.exp < 0 THEN <<"-">> ELSE <<"+">>) \o NatStr(mag)
                /\ eng_str(ms_loaded, swap).res.str = result.str

\* 4 * 10^-5 has been formatted with the Unicode micro sign: '40' and the sign
C8_Witness ==
    /\ pc = "eng_str"
    /\ args.x = Sci(FALSE, <<4>>, -5)
    /\ args.micro = <<MICRO_SIGN>>
    /\ ~args.infix
    /\ args.limits = <<9, -12>>
    /\ result.ok
    /\ result.str = <<"4", "0", MICRO_SIGN>>

RoundedTo(x, n, tieUp) ==
    IF x.k # "fin" THEN x
    ELSE LET r == SciDigits(x.dig, x.e + Len(x.dig) - 1, n, tieUp)
         IN  Dec(x.neg, r.dig, r.sci - (n - 1))

DefaultOptions(a) ==
    /\ a.limits = <<-12, 9>>
    /\ a.micro = <<"u">>
    /\ a.mega = <<"M">>
    /\ ~a.infix /\ ~a.show_plus /\ ~a.show_trailing_zeros

\* C10: for every finite x and every digits d >= 1, the other options at
\* their defaults, eng_float(eng_str(x, digits=d)) is x rounded to d
\* significant digits.
C10_RoundTrip ==
    (pc = "eng_str" /\ args.x.k \in {"fin", "zero"} /\ args.digits >= 1 /\ DefaultOptions(args)) =>
        /\ result.ok
        /\ eng_float(result.str) = Returned(RoundedTo(args.x, args.digits, args.tie))

\* -995 formatted to two digits, the tie going up, is '-1k', read back as -1000
C10_Witness ==
    /\ pc = "eng_str"
    /\ args.x = Sci(TRUE, <<9, 9, 5>>, 2)
    /\ args.digits = 2
    /\ args.tie
    /\ DefaultOptions(args)
    /\ result.ok
    /\ result.str = <<"-", "1", "k">>
    /\ eng_float(result.str) = Returned(Dec(TRUE, <<1>>, 3))

-----------------------------------------------------------------------------
(* Properties of the tables and of calls that follow or overlap each other *)

\* C11 as claimed: the prefix tables are never mutated after the module has
\* been loaded: after any sequence of calls ms has exactly the keys and values
\* it had when loading finished (weights, long_weights and longest_weights are
\* written by no function of the module).
C11_TablesNeverMutated == ms = ms_loaded

\* what a call returns when it runs alone on the tables as loaded
AloneResult(a) ==
    IF a.op = "eng_str" THEN eng_str(ms_loaded, a).res ELSE eng_float(a.x_org)

\* C12 as claimed: under every interleaving of the steps of concurrent calls
\* each call returns the result it returns when it runs alone.
C12_ConcurrentAsAlone ==
    \A t \in Threads : th[t].pc = "done" => th[t].result = AloneResult(th[t].args)

\* the token of the default options for a multiple of three in -24 .. 24
DefaultToken(exp) == IF exp = 0 THEN <<>> ELSE (CHOOSE p \in BIPMLetters : p[2] = exp)[1]

\* C13: calls that do not overlap are independent of the calls before them:
\* eng_str returns what it returns on the freshly loaded table, built with the
\* tokens of its own arguments (the default tokens for default options), and
\* eng_float reads '1' + T as 10^w for every documented prefix T, whatever
\* mega, micro and infix the earlier calls of eng_str had.
C13_SequentialIndependent ==
    \A t \in Threads :
        th[t].pc = "done" =>
            LET a   == th[t].args
                r   == th[t].result
                loc == r.loc
            IN  /\ a.op = "eng_str" =>
                    /\ r = eng_str(ms_loaded, a).res
                    /\ (r.ok /\ loc.can_subs) =>
                          r.str = IF a.infix
                                  THEN loc.sign \o loc.ipart \o DocumentedToken(loc.exp, a)
                                       \o loc.fpart
                                  ELSE loc.sign \o loc.ipart \o loc.dp \o loc.fpart
                                       \o DocumentedToken(loc.exp, a)
                    /\ (r.ok /\ loc.can_subs /\ DefaultOptions(a)) =>
                          r.str = loc.sign \o loc.ipart \o loc.dp \o loc.fpart
                                  \o DefaultToken(loc.exp)
                /\ a.op = "eng_float" =>
                    \A p \in DocumentedPrefixes :
                        a.x_org = <<"1">> \o p[1] => r = Returned(Dec(FALSE, <<1>>, p[2]))

\* t1 has formatted 4 * 10^6 with mega = 'meg', the micro sign and an infix,
\* and then t2 the same value with the default options: '4M', and the table
\* holds what t2 wrote over the entries of t1
C13_Witness ==
    /\ th["t1"].pc = "done"
    /\ th["t1"].args.op = "eng_str"
    /\ th["t1"].args.mega = <<"m", "e", "g">>
    /\ th["t1"].args.infix
    /\ th["t1"].result.str = <<"4", "m", "e", "g">>
    /\ th["t2"].pc = "done"
    /\ th["t2"].args.op = "eng_str"
    /\ th["t2"].args.x = Sci(FALSE, <<4>>, 6)
    /\ DefaultOptions(th["t2"].args)
    /\ th["t2"].result.str = <<"4", "M">>
    /\ ms[6] = <<"M">> /\ ms[-6] = <<"u">> /\ ms[0] = <<>>

-----------------------------------------------------------------------------
(* Properties of the errors of eng_float *)

\* s occurs in t
Contains(t, s) == Find(t, s) >= 0

\* C14: every error that eng_float raises for a text that is not empty carries
\* the text as it was given, blanks included; a failed suffix substitution
\* carries also the token found and the text that float() refused, which is
\* the trimmed text with the token at its end replaced by 'e' and the weight,
\* and a failed infix substitution the token and the trimmed text with the
\* token replaced by '.' and 'e' and the weight put at its end.
C14_ErrorsCarryInput ==
    (pc = "eng_float" /\ ~result.ok /\ Len(args.x_org) > 0) =>
        LET x   == Strip(args.x_org)
            msg == Message(result)
        IN  /\ result.kind \in {"SuffixSubstitutionFailed", "InfixSubstitutionFailed",
                                "NoMultiplierFound"}
            /\ Contains(msg, Quoted(args.x_org))
            /\ result.kind = "SuffixSubstitutionFailed" =>
                  \E p \in DocumentedPrefixes :
                      /\ EndsWith(x, p[1])
                      /\ ~ParseFloat(SuffixReplaced(x, p)).ok
                      /\ result.cand = p[1]
                      /\ result.sub = SuffixReplaced(x, p)
                      /\ SubSeq(msg, 1, Len(args.x_org) + 2) = Quoted(args.x_org)
                      /\ Contains(msg, Quoted(p[1]))
                      /\ Contains(msg, Quoted(SuffixReplaced(x, p)))
            /\ result.kind = "InfixSubstitutionFailed" =>
                  \E p \in DocumentedPrefixes :
                      /\ Contains(x, p[1])
                      /\ ~ParseFloat(InfixReplaced(x, p)).ok
                      /\ result.cand = p[1]
                      /\ result.sub = InfixReplaced(x, p)
                      /\ SubSeq(msg, 1, Len(args.x_org) + 2) = Quoted(args.x_org)
                      /\ Contains(msg, Quoted(p[1]))
                      /\ Contains(msg, Quoted(InfixReplaced(x, p)))

\* ' +1.3mm ' has failed in the suffix stage: the error names the text with
\* its blanks, the token 'm' and the substituted text '+1.3me-3'
C14_Witness ==
    /\ pc = "eng_float"
    /\ args.x_org = <<" ", "+", "1", ".", "3", "m", "m", " ">>
    /\ result.kind = "SuffixSubstitutionFailed"
    /\ result.cand = <<"m">>
    /\ Contains(Message(result), <<"\"", " ", "+", "1", ".", "3", "m", "m", " ", "\"">>)
    /\ Contains(Message(result), <<"\"", "+", "1", ".", "3", "m", "e", "-", "3", "\"">>)

-----------------------------------------------------------------------------
(* Properties of the input widget *)

\* C15 as claimed: on a GUI_inputs that has an execute function and entries,
\* the execute button is enabled exactly when every entry on the widget is
\* valid, after every add, edit, put, set_data and load.
C15_ExecuteIffAllValid ==
    (gui.created /\ gui.execute /\ DOMAIN gui.entries # {}) =>
        (gui.execute_but = "normal" <=> AllValid(gui.entries))

\* C16 as claimed: after every change of its text an entry is valid exactly
\* when its conversion accepts the text; a valid entry holds the converted
\* text and no error; an entry whose text raised ValueError is invalid, holds
\* the error and has the converted default as its value, or the default
\* itself when that does not convert; get() has a value for every key.
C16_EntryFollowsText ==
    gui.created =>
        /\ DOMAIN get(gui) = DOMAIN gui.entries
        /\ \A k \in DOMAIN gui.entries :
              LET e == gui.entries[k]
                  r == Conv(e.conv, StrValue(e.val_string))
                  d == Conv(e.conv, e.default)
              IN  /\ e.valid <=> r.exc = "none"
                  /\ r.exc = "none" => (e.value = r.val /\ e.err = NoErr)
                  /\ r.exc = "ValueError" =>
                        /\ ~e.valid
                        /\ e.err = ErrOf(e.val_string)
                        /\ e.value = IF d.exc = "none" THEN d.val ELSE e.default
                        /\ get(gui)[k] = e.value

-----------------------------------------------------------------------------
(* Properties of the quantisers *)

StrictlyIncreasing(basis) == \A i \in 1..(Len(basis) - 1) : basis[i] < basis[i + 1]

\* what make_quant asks of a basis: it starts with 1, ends with 10 and increases
BasisPrecondition(basis) ==
    /\ basis[1] = Unit
    /\ basis[Len(basis)] = 10 * Unit
    /\ StrictlyIncreasing(basis)

ValuesOf(basis) == {basis[i] : i \in 1..Len(basis)}

\* C17 as claimed: every predefined basis starts with 1, ends with 10 and is
\* strictly increasing, every value of qE12 is in qE24 and every value of qE48
\* is in qE96: whichever quantiser is called, it was made from such a basis.
C17_BasesWellFormed ==
    pc = "quant" =>
        /\ BasisPrecondition(Bases[args.basis])
        /\ \A name \in DOMAIN Bases : BasisPrecondition(Bases[name])
        /\ ValuesOf(qE12) \subseteq ValuesOf(qE24)
        /\ ValuesOf(qE48) \subseteq ValuesOf(qE96)

\* the largest / smallest element of a set of numbers that is not empty
SetMax(S) == CHOOSE v \in S : \A w \in S : w <= v

SetMin(S) == CHOOSE v \in S : \A w \in S : v <= w

\* the value v/100 * 10^e of the grid that a result of quant names
ResultValue(basis, r) == [v |-> At(basis, r.index), e |-> r.exp]

\* the largest value of the grid that is not above m/100 * 10^e (1 <= m/100 < 10)
GridFloor(basis, m, e) ==
    [v |-> SetMax({b \in ValuesOf(basis) : b <= m /\ b < 10 * Unit}), e |-> e]

\* the smallest value of the grid that is not below m/100 * 10^e
GridCeil(basis, m, e) ==
    LET c == SetMin({b \in ValuesOf(basis) : b >= m})
    IN  IF c = 10 * Unit THEN [v |-> Unit, e |-> e + 1] ELSE [v |-> c, e |-> e]

\* C18 as claimed: on a strictly increasing basis that starts with 1, for x
\* that is not taken for zero and offset 0 (and a range reduction that the
\* floating point arithmetic does exactly), quant returns sign(x) times the
\* largest grid value not above |x| for nearest = -1, the smallest grid value
\* not below |x| for nearest = 1, and for nearest = 0 the one of the two whose
\* ratio to |x| is closer to 1; the binary search ends with ihigh = ilow + 1
\* and basis[ilow] <= x_test <= basis[ihigh].
C18_FloorCeilNearest ==
    (pc = "quant" /\ ~result.zero /\ args.offset = 0
        /\ args.fl = [short |-> FALSE, ulp |-> 0]
        /\ StrictlyIncreasing(Bases[args.basis]) /\ Bases[args.basis][1] = Unit) =>
        LET basis == Bases[args.basis]
            m     == Mantissa(args.x)
            lo    == GridFloor(basis, m, SciExp(args.x))
            hi    == GridCeil(basis, m, SciExp(args.x))
            hiv   == IF hi.e > lo.e THEN 10 * Unit ELSE hi.v
            got   == ResultValue(basis, result)
        IN  /\ result.sign = (IF args.x.neg THEN -1 ELSE 1)
            /\ args.nearest = -1 => got = lo
            /\ args.nearest = 1 => got = hi
            /\ args.nearest = 0 =>
                  /\ got \in {lo, hi}
                  /\ m * m < lo.v * hiv => got = lo
                  /\ m * m > lo.v * hiv => got = hi
            /\ result.ihigh = result.ilow + 1
            /\ At(basis, result.ilow) <= result.x_test.m
            /\ result.x_test.m <= At(basis, result.ihigh)

\* the place of a result on the grid, counted in quantisation steps
Position(basis, r) == r.exp * (Len(basis) - 1) + r.index

\* C19: for every integer offset, quant returns the grid value offset steps
\* from the one it returns with offset 0 (above for a positive, below for a
\* negative offset): the wrap loops end with the index in 0 .. len(basis)-2,
\* and exp has gone up or down by one for each len(basis)-1 steps wrapped;
\* qE12(8.3, offset=4) is 18.0.
C19_OffsetSteps ==
    (pc = "quant" /\ ~result.zero) =>
        LET basis == Bases[args.basis]
            lbm1  == Len(basis) - 1
            r0    == quant(basis, args.x, args.nearest, 0, args.fl)
            p     == Position(basis, r0) + args.offset
        IN  /\ result.index \in 0..(lbm1 - 1)
            /\ r0.index \in 0..(lbm1 - 1)
            /\ result.index = p % lbm1
            /\ result.exp = p \div lbm1
            /\ result.exp - r0.exp = (r0.index + args.offset) \div lbm1
            /\ result.sign = r0.sign
            /\ (args.offset > 0 /\ StrictlyIncreasing(basis)) =>
                  \/ result.exp > r0.exp
                  \/ result.exp = r0.exp /\ At(basis, result.index) > At(basis, r0.index)
            /\ (args.basis = "qE12" /\ args.x = Sci(FALSE, <<8, 3>>, 0)
                  /\ args.nearest = 0 /\ args.offset = 4) =>
                  ResultValue(basis, result) = [v |-> 180, e |-> 1]

\* qE12(8.3, offset=4): 8.2 is the nearest value, at index 11; four steps on
\* the index wraps to 3 in the next decade, 1.8 * 10
C19_Witness ==
    /\ pc = "quant"
    /\ args.basis = "qE12"
    /\ args.x = Sci(FALSE, <<8, 3>>, 0)
    /\ args.nearest = 0
    /\ args.offset = 4
    /\ result.index = 3
    /\ result.exp = 1
    /\ At(qE12, result.index) = 180

-----------------------------------------------------------------------------
(* Properties of seconds_to_round_time *)

\* the instant (ticks) of the midnight with which the local day of t begins
LocalMidnight(z, t) ==
    LET day == localtime(z, t).day
    IN  CHOOSE m \in {(day * DaySeconds - z.std - h) * TicksPerSecond : h \in {0, HourSeconds}} :
            localtime(z, m).day = day /\ localtime(z, m).sod = 0

\* the length (ticks) of the local day of t
DayLength(z, t) ==
    LET day == localtime(z, t).day
        m   == LocalMidnight(z, t)
        nxt == CHOOSE n \in {m + (DaySeconds + h) * TicksPerSecond : h \in {-HourSeconds, 0, HourSeconds}} :
                   localtime(z, n).day = day + 1 /\ localtime(z, n).sod = 0
    IN  nxt - m

\* C20 as claimed: for every start_time and every secs > 0 that divides the
\* length of the day, the result r has 0 <= r < secs and start_time + r is a
\* whole multiple of secs after the local midnight of the day of start_time;
\* r is 0 exactly when start_time is on such a boundary.
C20_NextBoundary ==
    (pc = "seconds_to_round_time" /\ DayLength(args.zone, args.start_time) % args.secs = 0) =>
        LET midnight == LocalMidnight(args.zone, args.start_time)
            r        == result.r
        IN  /\ 0 <= r /\ r < args.secs
            /\ (args.start_time + r - midnight) % args.secs = 0
            /\ r = 0 <=> (args.start_time - midnight) % args.secs = 0

=============================================================================
